---------------------------- MODULE Spec2Model ----------------------------
(***************************************************************************)
(* SatGateSession (sdk/python/satgate/client.py): a requests.Session whose  *)
(* request() intercepts a 402 response, parses the L402/LSAT challenge of   *)
(* its WWW-Authenticate header, pays the invoice through the bound wallet   *)
(* and retries the request once with an Authorization credential.           *)
(*                                                                         *)
(* Python strings are sequences of one-character strings, so that the      *)
(* substring tests and the regular-expression searches of the code are     *)
(* computed on the text of the header, character by character.             *)
(***************************************************************************)
EXTENDS Naturals, Sequences, FiniteSets, TLC

VARIABLES wallet, call

vars == <<wallet, call>>

-----------------------------------------------------------------------------
(* Python values and text *)

\* an optional value (None, or a value): a sequence of at most one element
None == <<>>
Some(x) == <<x>>

DQ == "\""

sL402 == <<"L", "4", "0", "2">>
sLSAT == <<"L", "S", "A", "T">>
sl402 == <<"l", "4", "0", "2">>
sMacaroon == <<"m", "a", "c", "a", "r", "o", "o", "n">>
sInvoice == <<"i", "n", "v", "o", "i", "c", "e">>
sXMacaroon == <<"x">> \o sMacaroon
sRealm == <<"r", "e", "a", "l", "m">>
\* a realm whose text holds L402 inside a longer word
sRealmValue == <<"m", "y">> \o sL402 \o <<"a", "p", "i">>
sM1 == <<"M", "1">>
sM2 == <<"M", "2">>
sM9 == <<"M", "9">>
\* a credential identifier whose text ends in  invoice=
sMTail == <<"Z">> \o sInvoice \o <<"=">>
sI1 == <<"I", "1">>
sI2 == <<"I", "2">>
sP1 == <<"P", "1">>
sP2 == <<"P", "2">>
sOld == <<"B", "a", "s", "i", "c", " ", "o", "l", "d">>
sJson == <<"j", "s", "o", "n">>

\* needle in haystack, at position i
StartsAt(needle, s, i) ==
    /\ i + Len(needle) - 1 <= Len(s)
    /\ \A k \in 1..Len(needle) : s[i + k - 1] = needle[k]

\* Python's  needle in s  on strings
StrIn(needle, s) == \E i \in 1..(Len(s) + 1) : StartsAt(needle, s, i)

\* position of the first double quote of s at or after i (0: none)
NextQuote(s, i) ==
    LET qs == {j \in i..Len(s) : s[j] = DQ}
    IN  IF qs = {} THEN 0 ELSE CHOOSE j \in qs : \A k \in qs : j <= k

\* the pattern  key="([^"]+)"  matches s at position i
MatchesAt(key, s, i) ==
    LET open == key \o <<"=", DQ>>
        st == i + Len(open)
    IN  /\ StartsAt(open, s, i)
        /\ st <= Len(s)
        /\ s[st] # DQ
        /\ NextQuote(s, st) # 0

\* re.search(r'key="([^"]+)"', s): None, or group(1) of the leftmost match
re_search(key, s) ==
    LET hits == {i \in 1..Len(s) : MatchesAt(key, s, i)}
    IN  IF hits = {} THEN None
        ELSE LET i == CHOOSE j \in hits : \A k \in hits : j <= k
                 st == i + Len(key) + 2
             IN  Some(SubSeq(s, st, NextQuote(s, st) - 1))

-----------------------------------------------------------------------------
(* Challenge headers a server may send: a scheme token and key=value       *)
(* parameters (the environment of the session).                            *)

MaxExtras == 1

Param(k, q, v) == [key |-> k, quoted |-> q, val |-> v]

RenderParam(p) ==
    p.key \o <<"=">> \o (IF p.quoted THEN <<DQ>> \o p.val \o <<DQ>> ELSE p.val)

RECURSIVE JoinParams(_)
JoinParams(ps) ==
    IF ps = <<>> THEN <<>>
    ELSE IF Len(ps) = 1 THEN RenderParam(ps[1])
    ELSE RenderParam(ps[1]) \o <<",", " ">> \o JoinParams(Tail(ps))

RenderChallenge(ch) == ch.scheme \o <<" ">> \o JoinParams(ch.params)

Schemes == {sL402, sLSAT, sl402}

MacaroonParams ==
    {Param(sMacaroon, TRUE, sM1), Param(sMacaroon, TRUE, sMTail),
     Param(sMacaroon, TRUE, <<>>), Param(sMacaroon, FALSE, sM1)}

InvoiceParams ==
    {Param(sInvoice, TRUE, sI1), Param(sInvoice, TRUE, <<>>),
     Param(sInvoice, FALSE, sI1)}

ExtraParams == {Param(sRealm, TRUE, sRealmValue), Param(sXMacaroon, TRUE, sM9)}

\* at most one macaroon and one invoice parameter, in either order
BaseParamLists ==
    {<<>>}
      \cup {<<m>> : m \in MacaroonParams}
      \cup {<<i>> : i \in InvoiceParams}
      \cup {<<m, i>> : m \in MacaroonParams, i \in InvoiceParams}
      \cup {<<i, m>> : m \in MacaroonParams, i \in InvoiceParams}

InsertAt(ps, n, p) == SubSeq(ps, 1, n) \o <<p>> \o SubSeq(ps, n + 1, Len(ps))

RECURSIVE WithExtras(_)
WithExtras(n) ==
    IF n = 0 THEN BaseParamLists
    ELSE LET prev == WithExtras(n - 1)
         IN  prev \cup {InsertAt(ps, k, e) :
                          <<ps, k>> \in {<<q, j>> \in prev \X (0..(MaxExtras + 2)) :
                                           j <= Len(q)},
                          e \in ExtraParams}

Challenges == [scheme : Schemes, params : WithExtras(MaxExtras)]

-----------------------------------------------------------------------------
(* Values of the caller, the transport and the wallet *)

AllCalls == {"c1", "c2"}

PaymentRequired == 402

\* a Python object passed as an argument: a plain value, None, the caller's
\* own header dict (by reference) or a dict the call created (by content)
PlainArg(name) == [ref |-> name, items |-> {}]
NoneArg == [ref |-> "None", items |-> {}]
CallerDictRef == [ref |-> "caller", items |-> {}]
FreshDict(items) == [ref |-> "fresh", items |-> items]

\* header dicts are sets of <<name, value>> pairs, one pair per name
CallerDicts ==
    {{}, {<<"Accept", sJson>>}, {<<"Accept", sJson>>, <<"Authorization", sOld>>}}

\* requests.Session.request(self, method, url, params=None, data=None,
\* headers=None, ...): the names the positional arguments after url bind to
SessionRequestParams == <<"params", "data", "headers">>

Methods == {"GET", "POST"}
Urls == {"https://api/premium"}

\* the calls a caller may make: headers given by keyword (absent, None or a
\* dict), or positionally as the third argument after url
CallerRequests ==
    {[method |-> m, url |-> u, args |-> a, kwargs |-> ("timeout" :> PlainArg("5s")),
      callerDict |-> {}] :
        m \in Methods, u \in Urls,
        a \in {<<>>, <<PlainArg("params"), PlainArg("data")>>,
               <<PlainArg("params"), PlainArg("data"), NoneArg>>}}
      \cup
    {[method |-> m, url |-> u, args |-> a,
      kwargs |-> ("timeout" :> PlainArg("5s")) @@ ("headers" :> NoneArg),
      callerDict |-> {}] :
        m \in Methods, u \in Urls,
        a \in {<<>>, <<PlainArg("params"), PlainArg("data")>>}}
      \cup
    {[method |-> m, url |-> u, args |-> a,
      kwargs |-> ("timeout" :> PlainArg("5s")) @@ ("headers" :> CallerDictRef),
      callerDict |-> d] :
        m \in Methods, u \in Urls, d \in CallerDicts,
        a \in {<<>>, <<PlainArg("params"), PlainArg("data")>>}}
      \cup
    {[method |-> m, url |-> u,
      args |-> <<PlainArg("params"), PlainArg("data"), CallerDictRef>>,
      kwargs |-> ("timeout" :> PlainArg("5s")), callerDict |-> d] :
        m \in Methods, u \in Urls, d \in CallerDicts}

\* a response of the server: www is its WWW-Authenticate header (None when it
\* has none), sent the challenge the server rendered into it
Response(c, n, st, h, ch) ==
    [call |-> c, seq |-> n, status_code |-> st, www |-> h, sent |-> ch]

CanonicalChallenge(m, i) ==
    [scheme |-> sL402,
     params |-> <<Param(sMacaroon, TRUE, m), Param(sInvoice, TRUE, i)>>]

FirstResponses(c) ==
    {Response(c, 1, st, None, None) : st \in {200, 500}}
      \cup {Response(c, 1, st, Some(RenderChallenge(ch)), Some(ch)) :
               st \in {200, 500}, ch \in {CanonicalChallenge(sM1, sI1)}}
      \cup {Response(c, 1, PaymentRequired, None, None),
            Response(c, 1, PaymentRequired, Some(<<>>), None)}
      \cup {Response(c, 1, PaymentRequired, Some(RenderChallenge(ch)), Some(ch)) :
               ch \in Challenges}

SecondResponses(c) ==
    {Response(c, 2, st, None, None) : st \in {200, 500, PaymentRequired}}
      \cup {Response(c, 2, PaymentRequired, Some(RenderChallenge(ch)), Some(ch)) :
               ch \in {CanonicalChallenge(sM2, sI2)}}

\* what wallet.pay_invoice does: returns a value (a proof, "" or None) or raises
WalletOutcomes ==
    {[raised |-> FALSE, value |-> Some(sP1)], [raised |-> FALSE, value |-> Some(<<>>)],
     [raised |-> FALSE, value |-> None], [raised |-> TRUE, value |-> None]}

\* what one transport invocation does: raises, or returns a response
TransportReplies(responses) ==
    {[raised |-> TRUE, response |-> None]}
      \cup {[raised |-> FALSE, response |-> Some(r)] : r \in responses}

-----------------------------------------------------------------------------
(* The frame of one request() call *)

NoOutcome == [kind |-> "none", response |-> None, error |-> "none"]
Returned(resp) == [kind |-> "returned", response |-> resp, error |-> "none"]
Raised(err) == [kind |-> "raised", response |-> None, error |-> err]

NoRequest ==
    [method |-> "none", url |-> "none", args |-> <<>>,
     kwargs |-> ("timeout" :> PlainArg("none")), callerDict |-> {}]

IdleFrame ==
    [pc |-> "idle", given |-> NoRequest, method |-> "none", url |-> "none",
     args |-> <<>>, kwargs |-> ("timeout" :> PlainArg("none")), callerDict |-> {},
     response |-> None, macaroon |-> None, invoice |-> None, preimage |-> None,
     wire |-> <<>>, paid |-> <<>>, outcome |-> NoOutcome]

\* the caller calls session.request(method, url, *args, **kwargs)
EnterRequest(f, r) ==
    [f EXCEPT !.pc = "request", !.given = r, !.method = r.method, !.url = r.url,
              !.args = r.args, !.kwargs = r.kwargs, !.callerDict = r.callerDict]

\* the items of a header dict object, as the frame sees them now
Items(f, obj) == IF obj.ref = "caller" THEN f.callerDict ELSE obj.items

\* Python's binding of super().request(method, url, *args, **kwargs): a name
\* given both positionally and by keyword is a TypeError
BindingConflict(args, kwargs) ==
    \E i \in 1..Len(args) :
        i <= Len(SessionRequestParams) /\ SessionRequestParams[i] \in DOMAIN kwargs

\* the header dict the transport receives (None when the call gives none)
HeadersGiven(f, args, kwargs) ==
    LET pos == {i \in 1..Len(args) :
                  i <= Len(SessionRequestParams) /\ SessionRequestParams[i] = "headers"}
        obj == IF "headers" \in DOMAIN kwargs THEN kwargs["headers"]
               ELSE IF pos # {} THEN args[CHOOSE i \in pos : TRUE]
               ELSE NoneArg
    IN  IF obj = NoneArg THEN None ELSE Some(Items(f, obj))

\* one invocation of the transport, as the wire saw it
Exchange(f, args, kwargs, reply) ==
    [method |-> f.method, url |-> f.url, args |-> args, kwargs |-> kwargs,
     headers |-> HeadersGiven(f, args, kwargs), reply |-> reply]

-----------------------------------------------------------------------------
(* SatGateSession.request *)

\* return response
ReturnResponse(f) == [f EXCEPT !.pc = "done", !.outcome = Returned(f.response)]

\* faulty variant: every error status starts the payment flow
is_payment_required_any_error(resp) == resp.status_code >= 400

\* response.status_code == 402
is_payment_required(resp) == resp.status_code = PaymentRequired

\* faulty variant: a failed send is sent again
reraise_retry(f) == [f EXCEPT !.pc = "request"]

\* except requests.exceptions.RequestException as e: raise e
reraise(f) == [f EXCEPT !.pc = "done", !.outcome = Raised("TransportError")]

\* request(): the first transport invocation and the dispatch on its status
request(f, reply) ==
    LET g == [f EXCEPT !.wire = Append(@, Exchange(f, f.args, f.kwargs, reply))]
    IN  IF reply.raised THEN reraise(g)
        ELSE LET h == [g EXCEPT !.response = reply.response]
             IN  IF is_payment_required(reply.response[1])
                 THEN [h EXCEPT !.pc = "flow"]
                 ELSE ReturnResponse(h)

-----------------------------------------------------------------------------
(* SatGateSession._handle_payment_flow, A: parse the header *)

\* not auth_header: None or the empty string
no_auth_header(h) == h = None \/ h = Some(<<>>)

\* "L402" not in auth_header and "LSAT" not in auth_header
scheme_missing(s) == ~StrIn(sL402, s) /\ ~StrIn(sLSAT, s)

macaroon_match(s) == re_search(sMacaroon, s)
invoice_match(s) == re_search(sInvoice, s)

\* faulty variant: the invoice alone starts the payment, an absent macaroon
\* reads as the empty string
parse_header_invoice_only(f) ==
    LET s == f.response[1].www[1]
    IN  IF scheme_missing(s) THEN ReturnResponse(f)
        ELSE IF invoice_match(s) = None
             THEN ReturnResponse(f)
             ELSE [f EXCEPT !.macaroon = IF macaroon_match(s) = None
                                         THEN Some(<<>>) ELSE macaroon_match(s),
                            !.invoice = invoice_match(s), !.pc = "pay"]

\* the header is present: the scheme test and the two searches
parse_header(f) ==
    LET s == f.response[1].www[1]
    IN  IF scheme_missing(s) THEN ReturnResponse(f)
        ELSE IF macaroon_match(s) = None \/ invoice_match(s) = None
             THEN ReturnResponse(f)
             ELSE [f EXCEPT !.macaroon = macaroon_match(s),
                            !.invoice = invoice_match(s), !.pc = "pay"]

\* faulty variant: a missing header is waited for, reading the same response again
parse_challenge_poll(f) ==
    IF no_auth_header(f.response[1].www) THEN f ELSE parse_header(f)

\* faulty variant: response.headers["WWW-Authenticate"], a KeyError without the header
parse_challenge_keyerror(f) ==
    IF f.response[1].www = None
    THEN [f EXCEPT !.pc = "done", !.outcome = Raised("KeyError")]
    ELSE IF f.response[1].www = Some(<<>>) THEN ReturnResponse(f) ELSE parse_header(f)

\* auth_header = response.headers.get("WWW-Authenticate"), then the parse
parse_challenge(f) ==
    IF no_auth_header(f.response[1].www) THEN ReturnResponse(f) ELSE parse_header(f)

-----------------------------------------------------------------------------
(* B: pay the invoice *)

\* not preimage
not_preimage(v) == v = None \/ v = Some(<<>>)

\* faulty variant: an empty preimage counts as a payment
payment_failed_raise_only(w) == w.raised

\* the wallet raised, or ValueError("Wallet returned empty preimage"): both are
\* caught by  except Exception
payment_failed(w) == w.raised \/ not_preimage(w.value)

\* faulty variant: a failed payment is tried again
pay_invoice_repay(f, w) ==
    LET g == [f EXCEPT !.paid = Append(@, [invoice |-> f.invoice[1], result |-> w])]
    IN  IF w.raised \/ not_preimage(w.value) THEN g
        ELSE [g EXCEPT !.preimage = w.value, !.pc = "retry"]

\* preimage = self.wallet.pay_invoice(invoice), inside try/except: paid logs
\* the invoice the wallet was given and what the wallet did
pay_invoice(f, w) ==
    LET g == [f EXCEPT !.paid = Append(@, [invoice |-> f.invoice[1], result |-> w])]
    IN  IF payment_failed(w) THEN ReturnResponse(g)
        ELSE [g EXCEPT !.preimage = w.value, !.pc = "retry"]

-----------------------------------------------------------------------------
(* C: retry with Authorization *)

\* str() of an optional string, as an f-string formats it
PyStr(v) == IF v = None THEN <<"N", "o", "n", "e">> ELSE v[1]

\* faulty variant: the credential is prefixed with the LSAT scheme
l402_token_lsat(macaroon, preimage) ==
    sLSAT \o <<" ">> \o PyStr(macaroon) \o <<":">> \o PyStr(preimage)

\* f"L402 {macaroon}:{preimage}"
l402_token(macaroon, preimage) ==
    sL402 \o <<" ">> \o PyStr(macaroon) \o <<":">> \o PyStr(preimage)

\* req_headers = kwargs.get("headers", {}); if req_headers is None: req_headers = {}
get_headers(kwargs) ==
    LET got == IF "headers" \in DOMAIN kwargs THEN kwargs["headers"] ELSE FreshDict({})
    IN  IF got = NoneArg THEN FreshDict({}) ELSE got

\* faulty variant: no copy, req_headers stays the caller's own dict
dict_copy_alias(f, obj) == obj

\* req_headers.copy()
dict_copy(f, obj) == FreshDict(Items(f, obj))

\* d[name] = value on the items of a dict
SetItem(items, name, value) ==
    {p \in items : p[1] # name} \cup {<<name, value>>}

\* faulty variant: the retry's headers are a new dict holding only Authorization
set_authorization_only(f) ==
    [f EXCEPT !.kwargs =
        ("headers" :> FreshDict({<<"Authorization", l402_token(f.macaroon, f.preimage)>>}))
          @@ @]

\* the frame after  req_headers["Authorization"] = l402_token  and
\* kwargs["headers"] = req_headers: a write to the caller's own dict shows in
\* callerDict
set_authorization(f) ==
    LET token == l402_token(f.macaroon, f.preimage)
        obj == dict_copy(f, get_headers(f.kwargs))
    IN  IF obj.ref = "caller"
        THEN [f EXCEPT !.callerDict = SetItem(@, "Authorization", token),
                       !.kwargs = ("headers" :> obj) @@ @]
        ELSE [f EXCEPT !.kwargs =
                 ("headers" :> FreshDict(SetItem(obj.items, "Authorization", token)))
                   @@ @]

\* faulty variant: return self.request(...), which handles a second 402 again
retry_return_recursive(f, reply) ==
    IF reply.raised THEN [f EXCEPT !.pc = "done", !.outcome = Raised("TransportError")]
    ELSE IF reply.response[1].status_code = PaymentRequired
         THEN [f EXCEPT !.response = reply.response, !.pc = "flow"]
         ELSE [f EXCEPT !.pc = "done", !.outcome = Returned(reply.response)]

\* faulty variant: the retry is sent and the original response returned
retry_return_original(f, reply) ==
    IF reply.raised THEN [f EXCEPT !.pc = "done", !.outcome = Raised("TransportError")]
    ELSE [f EXCEPT !.pc = "done", !.outcome = Returned(f.response)]

\* faulty variant: a failed retry is caught and the original response returned
retry_return_swallow(f, reply) ==
    IF reply.raised THEN [f EXCEPT !.pc = "done", !.outcome = Returned(f.response)]
    ELSE [f EXCEPT !.pc = "done", !.outcome = Returned(reply.response)]

\* return super().request(...): the reply of the retry ends the call
retry_return(f, reply) ==
    IF reply.raised THEN [f EXCEPT !.pc = "done", !.outcome = Raised("TransportError")]
    ELSE [f EXCEPT !.pc = "done", !.outcome = Returned(reply.response)]

retry_request(f, reply) ==
    LET g == set_authorization(f)
    IN  IF BindingConflict(g.args, g.kwargs)
        THEN [g EXCEPT !.pc = "done", !.outcome = Raised("TypeError")]
        ELSE retry_return(
               [g EXCEPT !.wire = Append(@, Exchange(g, g.args, g.kwargs, reply))],
               reply)

-----------------------------------------------------------------------------
(* The state machine *)

Calls == {"c1"}

Init ==
    /\ wallet = "wallet"
    /\ call = [c \in AllCalls |-> IdleFrame]

\* SatGateSession(wallet) was constructed; a caller enters request()
Enter(c) ==
    /\ call[c].pc = "idle"
    /\ \E r \in CallerRequests : call' = [call EXCEPT ![c] = EnterRequest(@, r)]
    /\ UNCHANGED wallet

SendRequest(c) ==
    /\ call[c].pc = "request"
    /\ \E reply \in TransportReplies(FirstResponses(c)) :
         call' = [call EXCEPT ![c] = request(@, reply)]
    /\ UNCHANGED wallet

ParseChallenge(c) ==
    /\ call[c].pc = "flow"
    /\ call' = [call EXCEPT ![c] = parse_challenge(@)]
    /\ UNCHANGED wallet

PayInvoice(c) ==
    /\ call[c].pc = "pay"
    /\ \E w \in WalletOutcomes : call' = [call EXCEPT ![c] = pay_invoice(@, w)]
    /\ UNCHANGED wallet

RetryRequest(c) ==
    /\ call[c].pc = "retry"
    /\ \E reply \in TransportReplies(SecondResponses(c)) :
         call' = [call EXCEPT ![c] = retry_request(@, reply)]
    /\ UNCHANGED wallet

Step(c) ==
    \/ Enter(c)
    \/ SendRequest(c)
    \/ ParseChallenge(c)
    \/ PayInvoice(c)
    \/ RetryRequest(c)

Next == \E c \in Calls : Step(c)

Spec == Init /\ [][Next]_vars

\* Every transport invocation and the wallet invocation return, with a result
\* or a failure, and the code between them runs on: each step of a call that
\* has been entered is eventually taken.
\* The first responses are those of Spec whose challenge holds at most the
\* macaroon and the invoice parameter, under a recognized or an unrecognized
\* scheme: every branch of the flow is taken.
FairFirstResponses(c) ==
    {Response(c, 1, 200, None, None),
     Response(c, 1, PaymentRequired, None, None),
     Response(c, 1, PaymentRequired, Some(<<>>), None)}
      \cup {Response(c, 1, PaymentRequired, Some(RenderChallenge(ch)), Some(ch)) :
               ch \in [scheme : {sL402, sl402}, params : BaseParamLists]}

SendRequestFair(c) ==
    /\ call[c].pc = "request"
    /\ \E reply \in TransportReplies(FairFirstResponses(c)) :
         call' = [call EXCEPT ![c] = request(@, reply)]
    /\ UNCHANGED wallet

StepFair(c) ==
    \/ Enter(c)
    \/ SendRequestFair(c)
    \/ ParseChallenge(c)
    \/ PayInvoice(c)
    \/ RetryRequest(c)

NextFair == \E c \in Calls : StepFair(c)

Fairness ==
    \A c \in Calls :
        /\ WF_vars(SendRequestFair(c))
        /\ WF_vars(ParseChallenge(c))
        /\ WF_vars(PayInvoice(c))
        /\ WF_vars(RetryRequest(c))

SpecFair == Init /\ [][NextFair]_vars /\ Fairness

-----------------------------------------------------------------------------
(* Several request() calls in flight on one session: the steps of the calls *)
(* interleave at the transport and wallet invocations. Each call is        *)
(* answered with a challenge of its own.                                   *)

OwnChallenge(c) ==
    IF c = "c1" THEN CanonicalChallenge(sM1, sI1) ELSE CanonicalChallenge(sM2, sI2)

ConcRequests ==
    {r \in CallerRequests :
        /\ r.method = "GET" /\ r.args = <<>>
        /\ r.callerDict \in {{}, {<<"Accept", sJson>>, <<"Authorization", sOld>>}}
        /\ ("headers" \in DOMAIN r.kwargs => r.kwargs["headers"] = CallerDictRef)}

ConcFirstResponses(c) ==
    {Response(c, 1, 200, None, None), Response(c, 1, PaymentRequired, None, None),
     Response(c, 1, PaymentRequired, Some(RenderChallenge(OwnChallenge(c))),
              Some(OwnChallenge(c)))}

ConcSecondResponses(c) ==
    {Response(c, 2, st, None, None) : st \in {200, PaymentRequired}}

\* the shared wallet settles invoice "I<n>" with preimage "P<n>", or raises
ConcWalletOutcomes(invoice) ==
    {[raised |-> FALSE, value |-> Some(<<"P">> \o Tail(invoice))],
     [raised |-> TRUE, value |-> None]}

EnterConc(c) ==
    /\ call[c].pc = "idle"
    /\ \E r \in ConcRequests : call' = [call EXCEPT ![c] = EnterRequest(@, r)]
    /\ UNCHANGED wallet

SendRequestConc(c) ==
    /\ call[c].pc = "request"
    /\ \E reply \in TransportReplies(ConcFirstResponses(c)) :
         call' = [call EXCEPT ![c] = request(@, reply)]
    /\ UNCHANGED wallet

\* faulty variant: the invoice is kept on the session, where any call that
\* parsed a challenge may have left its own
PayInvoiceConcShared(c) ==
    /\ call[c].pc = "pay"
    /\ \E d \in AllCalls :
         /\ call[d].invoice # None
         /\ \E w \in ConcWalletOutcomes(call[d].invoice[1]) :
              call' = [call EXCEPT ![c] =
                         pay_invoice([@ EXCEPT !.invoice = call[d].invoice], w)]
    /\ UNCHANGED wallet

PayInvoiceConc(c) ==
    /\ call[c].pc = "pay"
    /\ \E w \in ConcWalletOutcomes(call[c].invoice[1]) :
         call' = [call EXCEPT ![c] = pay_invoice(@, w)]
    /\ UNCHANGED wallet

RetryRequestConc(c) ==
    /\ call[c].pc = "retry"
    /\ \E reply \in TransportReplies(ConcSecondResponses(c)) :
         call' = [call EXCEPT ![c] = retry_request(@, reply)]
    /\ UNCHANGED wallet

StepConc(c) ==
    \/ EnterConc(c)
    \/ SendRequestConc(c)
    \/ ParseChallenge(c)
    \/ PayInvoiceConc(c)
    \/ RetryRequestConc(c)

NextConc == \E c \in AllCalls : StepConc(c)

SpecConc == Init /\ [][NextConc]_vars

-----------------------------------------------------------------------------
(* What the wire, the wallet and the server saw of a call *)

Sends(c) == Len(call[c].wire)
Payments(c) == Len(call[c].paid)
IsDone(c) == call[c].pc = "done"

\* the n-th transport invocation of c was answered by a response
Answered(c, n) == Sends(c) >= n /\ ~call[c].wire[n].reply.raised
Reply(c, n) == call[c].wire[n].reply.response

\* the first response of c is a 402
Challenged(c) == Answered(c, 1) /\ Reply(c, 1)[1].status_code = 402

\* the first response of c is a 402 whose header renders challenge ch
ChallengedWith(c, ch) == Challenged(c) /\ Reply(c, 1)[1].sent = Some(ch)

\* the parameter of ch under key k carries a quoted, non-empty value
HasValue(ch, k) ==
    \E i \in 1..Len(ch.params) :
        ch.params[i].key = k /\ ch.params[i].quoted /\ ch.params[i].val # <<>>

ValueOf(ch, k) ==
    ch.params[CHOOSE i \in 1..Len(ch.params) : ch.params[i].key = k].val

WellFormed(ch) ==
    ch.scheme \in {sL402, sLSAT} /\ HasValue(ch, sMacaroon) /\ HasValue(ch, sInvoice)

\* the wallet returned a non-empty proof to the n-th payment of c
PaidWith(c, n) ==
    /\ Payments(c) >= n
    /\ ~call[c].paid[n].result.raised
    /\ call[c].paid[n].result.value \notin {None, Some(<<>>)}

Proof(c, n) == call[c].paid[n].result.value[1]

\* the call returned the response the transport gave to its n-th invocation
ReturnedReply(c, n) ==
    /\ IsDone(c)
    /\ call[c].outcome = Returned(Reply(c, n))

-----------------------------------------------------------------------------
(* Claims *)

\* C1: in one request() call wallet.pay_invoice is invoked at most once,
\* whatever the first response, the payment's outcome and the retried response.
C1_AtMostOnePayment == \A c \in AllCalls : Payments(c) <= 1

\* a call that paid and whose retry was answered by a second 402 challenge
C1_Witness ==
    \E c \in AllCalls :
        /\ IsDone(c) /\ Payments(c) = 1 /\ Answered(c, 2)
        /\ Reply(c, 2)[1].status_code = 402 /\ Reply(c, 2)[1].www # None

\* C2: in one request() call the transport is invoked at most twice.
C2_AtMostTwoSends == \A c \in AllCalls : Sends(c) <= 2

\* a finished call with the original send and the retry, the retry failing
C2_Witness ==
    \E c \in AllCalls :
        IsDone(c) /\ Sends(c) = 2 /\ call[c].wire[2].reply.raised

\* C3: a first response whose status is not 402 is returned as it is, with no
\* payment and exactly one transport invocation.
C3_PassThrough ==
    \A c \in AllCalls :
        (Answered(c, 1) /\ Reply(c, 1)[1].status_code # 402)
          => ReturnedReply(c, 1) /\ Payments(c) = 0 /\ Sends(c) = 1

\* a 500 response that carries a well-formed challenge was passed through
C3_Witness ==
    \E c \in AllCalls :
        /\ Answered(c, 1) /\ Reply(c, 1)[1].status_code = 500
        /\ Reply(c, 1)[1].www # None /\ IsDone(c)

\* the text "L402 M:P" of the credential for identifier m and proof p
CredentialText(m, p) == <<"L", "4", "0", "2", " ">> \o m \o <<":">> \o p

\* the n-th transport invocation of c carried exactly one Authorization
\* header, with value v
SentAuthorization(c, n, v) ==
    /\ Sends(c) >= n
    /\ call[c].wire[n].headers # None
    /\ {p \in call[c].wire[n].headers[1] : p[1] = "Authorization"}
         = {<<"Authorization", v>>}

\* C4: after a 402 with a well-formed challenge carrying credentialId M and
\* invoice I, and a wallet that returned a non-empty proof P for I, the retry
\* is sent with Authorization "L402 M:P" and its response is what request()
\* returns.
C4_CredentialConstruction ==
    \A c \in AllCalls :
        (/\ Challenged(c) /\ Reply(c, 1)[1].sent # None
         /\ WellFormed(Reply(c, 1)[1].sent[1])
         /\ PaidWith(c, 1)
         /\ call[c].paid[1].invoice = ValueOf(Reply(c, 1)[1].sent[1], sInvoice)
         /\ IsDone(c))
          => /\ Sends(c) = 2
             /\ SentAuthorization(c, 2,
                  CredentialText(ValueOf(Reply(c, 1)[1].sent[1], sMacaroon), Proof(c, 1)))
             /\ (Answered(c, 2) => ReturnedReply(c, 2))

\* C5: when wallet.pay_invoice raises or returns an empty or absent proof,
\* request() returns the original 402 response, sends no retry and builds no
\* Authorization credential (its keyword arguments and the caller's header
\* dict stay as given).
C5_PaymentFailureDegrades ==
    \A c \in AllCalls :
        (Payments(c) >= 1 /\ ~PaidWith(c, 1))
          => /\ ReturnedReply(c, 1) /\ Challenged(c) /\ Sends(c) = 1
             /\ call[c].kwargs = call[c].given.kwargs
             /\ call[c].callerDict = call[c].given.callerDict
             /\ call[c].preimage = None

\* the wallet returned the empty string and the call ended
C5_Witness ==
    \E c \in AllCalls :
        /\ IsDone(c) /\ Payments(c) = 1
        /\ ~call[c].paid[1].result.raised
        /\ call[c].paid[1].result.value = Some(<<>>)

\* the challenge lacks the macaroon or the invoice key, or gives either value
\* unquoted or empty
Malformed(ch) == ~HasValue(ch, sMacaroon) \/ ~HasValue(ch, sInvoice)

\* C6: for a 402 whose challenge header lacks the macaroon= or the invoice=
\* key, or gives either value unquoted or empty, request() returns the
\* original 402 response, never invokes the wallet and sends no retry.
C6_FailClosedOnMalformed ==
    \A c \in AllCalls :
        (/\ Challenged(c) /\ Reply(c, 1)[1].sent # None
         /\ Malformed(Reply(c, 1)[1].sent[1])
         /\ call[c].pc # "flow")
          => ReturnedReply(c, 1) /\ Payments(c) = 0 /\ Sends(c) = 1

\* C7: a 402 without a WWW-Authenticate header is returned as it is, without
\* raising, with no payment and no retry.
C7_MissingHeader ==
    \A c \in AllCalls :
        (Challenged(c) /\ Reply(c, 1)[1].www = None /\ call[c].pc # "flow")
          => /\ ReturnedReply(c, 1) /\ call[c].outcome.kind # "raised"
             /\ Payments(c) = 0 /\ Sends(c) = 1

\* a 402 without the header was handled and the call ended
C7_Witness ==
    \E c \in AllCalls :
        Challenged(c) /\ Reply(c, 1)[1].www = None /\ IsDone(c)

\* C8: once the retry has been sent the call is over: its response is
\* returned whatever its status, a second 402 included, with no further
\* parse (the extracted macaroon and invoice are those of the first
\* response), payment or send.
C8_SecondResponseFinal ==
    \A c \in AllCalls :
        Sends(c) >= 2
          => /\ IsDone(c) /\ Sends(c) = 2 /\ Payments(c) = 1
             /\ call[c].response = Reply(c, 1)
             /\ (Answered(c, 2) => ReturnedReply(c, 2))

\* the retry was answered by a second 402 that carries a fresh challenge
C8_Witness ==
    \E c \in AllCalls :
        /\ Answered(c, 2) /\ Reply(c, 2)[1].status_code = 402
        /\ Reply(c, 2)[1].sent = Some(CanonicalChallenge(sM2, sI2))
        /\ ReturnedReply(c, 2)

\* C9: every request() call ends by returning a response or by propagating a
\* transport error; nothing of the payment protocol (missing or malformed
\* header, wallet error, empty proof, construction of the retry) reaches the
\* caller as an exception.
C9_OnlyTransportFaults ==
    \A c \in AllCalls :
        IsDone(c) =>
            \/ call[c].outcome.kind = "returned"
            \/ call[c].outcome = Raised("TransportError")

\* C10: when the original send fails the failure reaches the caller at once:
\* no second transport invocation and no payment.
C10_FirstSendFailure ==
    \A c \in AllCalls :
        (Sends(c) >= 1 /\ call[c].wire[1].reply.raised)
          => /\ IsDone(c) /\ call[c].outcome = Raised("TransportError")
             /\ Sends(c) = 1 /\ Payments(c) = 0

\* the original send failed
C10_Witness ==
    \E c \in AllCalls :
        Sends(c) = 1 /\ call[c].wire[1].reply.raised /\ IsDone(c)

\* the Authorization values the n-th transport invocation of c carried
AuthorizationValues(c, n) ==
    IF call[c].wire[n].headers = None THEN {}
    ELSE {p[2] : p \in {q \in call[c].wire[n].headers[1] : q[1] = "Authorization"}}

\* C11: the scheme token of the retry's Authorization value is always the
\* literal "L402", whether the challenge named L402 or LSAT.
C11_SchemeNormalization ==
    \A c \in AllCalls :
        Sends(c) >= 2
          => /\ AuthorizationValues(c, 2) # {}
             /\ \A v \in AuthorizationValues(c, 2) :
                    Len(v) >= 5 /\ SubSeq(v, 1, 5) = <<"L", "4", "0", "2", " ">>

\* a retry was sent after a challenge whose scheme token is LSAT
C11_Witness ==
    \E c \in AllCalls :
        /\ Sends(c) = 2 /\ Reply(c, 1)[1].sent # None
        /\ Reply(c, 1)[1].sent[1].scheme = <<"L", "S", "A", "T">>

\* the scheme token, a key or a value of ch is the token L402 or LSAT
HasSchemeToken(ch) ==
    \/ ch.scheme \in {<<"L", "4", "0", "2">>, <<"L", "S", "A", "T">>}
    \/ \E i \in 1..Len(ch.params) :
          \/ ch.params[i].key \in {<<"L", "4", "0", "2">>, <<"L", "S", "A", "T">>}
          \/ ch.params[i].val \in {<<"L", "4", "0", "2">>, <<"L", "S", "A", "T">>}

\* C12: a 402 whose challenge header does not contain the token "L402" or
\* "LSAT" (case-sensitive) is returned as it is and the wallet is never
\* invoked, also when the header carries well-formed macaroon and invoice
\* pairs.
C12_SchemeGate ==
    \A c \in AllCalls :
        (/\ Challenged(c) /\ Reply(c, 1)[1].sent # None
         /\ ~HasSchemeToken(Reply(c, 1)[1].sent[1])
         /\ call[c].pc # "flow")
          => ReturnedReply(c, 1) /\ Payments(c) = 0 /\ Sends(c) = 1

\* the keyword arguments of the n-th transport invocation, headers aside
Options(c, n) ==
    [k \in DOMAIN call[c].wire[n].kwargs \ {"headers"} |-> call[c].wire[n].kwargs[k]]

\* the header items of the n-th transport invocation (none: the empty set)
HeaderItems(c, n) ==
    IF call[c].wire[n].headers = None THEN {} ELSE call[c].wire[n].headers[1]

\* C13: the retry is sent with the method, URL, positional arguments and
\* transport options of the original request, and with its headers except
\* that Authorization is the serialized credential, replacing any
\* Authorization the caller supplied.
C13_RetryFidelity ==
    \A c \in AllCalls :
        Sends(c) >= 2
          => /\ call[c].wire[2].method = call[c].given.method
             /\ call[c].wire[2].url = call[c].given.url
             /\ call[c].wire[2].args = call[c].given.args
             /\ Options(c, 2) = Options(c, 1)
             /\ call[c].wire[1].kwargs = call[c].given.kwargs
             /\ {p \in HeaderItems(c, 2) : p[1] # "Authorization"}
                  = {p \in HeaderItems(c, 1) : p[1] # "Authorization"}
             /\ PaidWith(c, 1)
             /\ AuthorizationValues(c, 2)
                  = {CredentialText(call[c].macaroon[1], Proof(c, 1))}

\* a retry replaced the Authorization the caller supplied and kept Accept
C13_Witness ==
    \E c \in AllCalls :
        /\ Sends(c) = 2
        /\ <<"Authorization", sOld>> \in HeaderItems(c, 1)
        /\ <<"Accept", sJson>> \in HeaderItems(c, 2)
        /\ <<"Authorization", sOld>> \notin HeaderItems(c, 2)
        /\ call[c].wire[2].args # <<>>

\* C14: on every path the header dict the caller passed holds, after the
\* call, exactly the entries it held before; the credential is written to a
\* copy.
C14_CallerHeadersKept ==
    \A c \in AllCalls : call[c].callerDict = call[c].given.callerDict

\* a pay-and-retry ended for a caller that passed a header dict by keyword
C14_Witness ==
    \E c \in AllCalls :
        /\ IsDone(c) /\ Sends(c) = 2
        /\ "headers" \in DOMAIN call[c].given.kwargs
        /\ call[c].given.kwargs["headers"] = CallerDictRef
        /\ call[c].given.callerDict # {}
        /\ AuthorizationValues(c, 2) # {}

\* C15: in every interleaving of the calls on one session each call pays at
\* most once and only the invoice of its own challenge, its retry carries
\* the credential of its own challenge's credentialId and its own payment's
\* proof, and the session's wallet reference is the one set at construction.
C15_Independence ==
    /\ wallet = "wallet"
    /\ \A c \in AllCalls :
         /\ Payments(c) <= 1
         /\ Payments(c) >= 1
              => /\ Challenged(c) /\ Reply(c, 1)[1].sent # None
                 /\ call[c].paid[1].invoice = ValueOf(Reply(c, 1)[1].sent[1], sInvoice)
                 /\ \A d \in AllCalls \ {c} :
                      Payments(d) >= 1 => call[d].paid[1].invoice # call[c].paid[1].invoice
         /\ Sends(c) >= 2
              => AuthorizationValues(c, 2)
                   = {CredentialText(ValueOf(Reply(c, 1)[1].sent[1], sMacaroon),
                                     Proof(c, 1))}

\* both calls paid and retried, each with a credential of its own
C15_Witness ==
    /\ \A c \in AllCalls : IsDone(c) /\ Sends(c) = 2 /\ Payments(c) = 1
    /\ AuthorizationValues("c1", 2) # AuthorizationValues("c2", 2)

\* C16: provided the transport and wallet invocations return, every
\* request() call that was entered reaches its end, from every branch, within
\* a bounded number of transport and wallet invocations.
C16_Termination ==
    /\ \A c \in AllCalls : (call[c].pc # "idle") ~> (call[c].pc = "done")
    /\ [](\A c \in AllCalls : Sends(c) + Payments(c) <= 3)

\* the longest branch ended: a payment and a retry answered by a second 402
C16_Witness ==
    \E c \in AllCalls :
        /\ call[c].pc = "done" /\ Sends(c) + Payments(c) = 3
        /\ Answered(c, 2) /\ Reply(c, 2)[1].status_code = 402


\* ch without the parameters whose key is neither macaroon nor invoice
Strip(ch) ==
    [ch EXCEPT !.params =
        SelectSeq(ch.params, LAMBDA p : p.key \in {sMacaroon, sInvoice})]

HasExtra(ch) == Len(Strip(ch).params) < Len(ch.params)

\* the code reads credentialId m and invoice i off the rendered ch
ReadsAs(ch, m, i) ==
    /\ macaroon_match(RenderChallenge(ch)) = Some(m)
    /\ invoice_match(RenderChallenge(ch)) = Some(i)

\* C17: a challenge with a recognized scheme and well-formed macaroon="M" and
\* invoice="I" pairs, which is read as M and I without further parameters,
\* is read the same with further key="value" parameters added anywhere: it
\* is not rejected, the wallet is asked to pay exactly I and the credential
\* of the retry is built from exactly M.
C17_ExtrasIgnored ==
    \A c \in AllCalls :
        (/\ Challenged(c) /\ Reply(c, 1)[1].sent # None
         /\ WellFormed(Reply(c, 1)[1].sent[1])
         /\ HasExtra(Reply(c, 1)[1].sent[1])
         /\ ReadsAs(Strip(Reply(c, 1)[1].sent[1]),
                    ValueOf(Reply(c, 1)[1].sent[1], sMacaroon),
                    ValueOf(Reply(c, 1)[1].sent[1], sInvoice))
         /\ call[c].pc # "flow")
          => /\ call[c].macaroon = Some(ValueOf(Reply(c, 1)[1].sent[1], sMacaroon))
             /\ call[c].invoice = Some(ValueOf(Reply(c, 1)[1].sent[1], sInvoice))
             /\ (Payments(c) >= 1 =>
                   call[c].paid[1].invoice = ValueOf(Reply(c, 1)[1].sent[1], sInvoice))
             /\ (PaidWith(c, 1) /\ Sends(c) >= 2 =>
                   SentAuthorization(c, 2,
                     CredentialText(ValueOf(Reply(c, 1)[1].sent[1], sMacaroon),
                                    Proof(c, 1))))

\* ch with its two parameters in the other order
Swapped(ch) == [ch EXCEPT !.params = <<ch.params[2], ch.params[1]>>]

\* what the code extracts from header s: the credentialId and the invoice, or
\* nothing when it rejects s
Extraction(s) ==
    IF scheme_missing(s) \/ macaroon_match(s) = None \/ invoice_match(s) = None
    THEN <<None, None>>
    ELSE <<macaroon_match(s), invoice_match(s)>>

\* C18: a header that gives macaroon="M" and invoice="I" in one order is read
\* as the header that gives them in the other order: the same credentialId
\* and invoice are extracted, hence the same invoice is paid.
C18_KeyOrderIndependence ==
    \A c \in AllCalls :
        (/\ Challenged(c) /\ Reply(c, 1)[1].sent # None
         /\ Len(Reply(c, 1)[1].sent[1].params) = 2
         /\ HasValue(Reply(c, 1)[1].sent[1], sMacaroon)
         /\ HasValue(Reply(c, 1)[1].sent[1], sInvoice)
         /\ call[c].pc # "flow")
          => /\ <<call[c].macaroon, call[c].invoice>>
                  = Extraction(RenderChallenge(Swapped(Reply(c, 1)[1].sent[1])))
             /\ (Payments(c) >= 1 =>
                   Some(call[c].paid[1].invoice)
                     = Extraction(RenderChallenge(Swapped(Reply(c, 1)[1].sent[1])))[2])

\* the n-th transport invocation of c carried an L402 credential
CredentialOnWire(c, n) ==
    \E v \in AuthorizationValues(c, n) :
        Len(v) >= 5 /\ SubSeq(v, 1, 5) = <<"L", "4", "0", "2", " ">>

\* C19: within one call the wallet is invoked only after a first response
\* with status 402 whose header the parse accepted, and with exactly the
\* invoice extracted from that header; a second transport invocation, and
\* any credential on the wire, comes only after the wallet returned a
\* non-empty proof in the same call.
C19_StepOrder ==
    \A c \in AllCalls :
        /\ Payments(c) >= 1 =>
              /\ Challenged(c)
              /\ Reply(c, 1)[1].www # None
              /\ Extraction(Reply(c, 1)[1].www[1])[1] # None
              /\ Extraction(Reply(c, 1)[1].www[1])[2]
                   = Some(call[c].paid[1].invoice)
        /\ Sends(c) >= 2 => PaidWith(c, 1)
        /\ \A n \in 1..Sends(c) : CredentialOnWire(c, n) => n = 2 /\ PaidWith(c, 1)

\* a call went through all the steps: 402, parse, payment of the extracted
\* invoice, retry with the credential
C19_Witness ==
    \E c \in AllCalls :
        /\ Sends(c) = 2 /\ Payments(c) = 1 /\ PaidWith(c, 1)
        /\ CredentialOnWire(c, 2)
        /\ Extraction(Reply(c, 1)[1].www[1])[2] = Some(call[c].paid[1].invoice)

\* C20: when the wallet returned a proof and the retried transport invocation
\* then fails, the transport failure reaches the caller (the original 402 is
\* not returned in its place) and nothing is invoked again: the call ends
\* with exactly one payment and exactly two transport invocations.
C20_RetryFailurePropagates ==
    \A c \in AllCalls :
        (PaidWith(c, 1) /\ Sends(c) >= 2 /\ call[c].wire[2].reply.raised)
          => /\ IsDone(c)
             /\ call[c].outcome = Raised("TransportError")
             /\ Payments(c) = 1
             /\ Sends(c) = 2

\* the wallet paid, the retry carried the credential and the transport failed
C20_Witness ==
    \E c \in AllCalls :
        /\ PaidWith(c, 1) /\ Sends(c) = 2 /\ CredentialOnWire(c, 2)
        /\ call[c].wire[2].reply.raised
        /\ call[c].outcome = Raised("TransportError")
=============================================================================
